---- MODULE Spec2Model ----
(***************************************************************************)
(* A model of the RetroArch NCI client (retroarch_nci.py).                 *)
(*                                                                         *)
(* Text is a sequence of Unicode code points, a datagram a sequence of     *)
(* bytes 0..255.  Python values are tagged records so that None, str and   *)
(* int results can be compared with one another.                           *)
(*                                                                         *)
(* Three specifications share the module:                                  *)
(*   Spec      concurrent calls of RetroArchNCI._send, statement by        *)
(*             statement, over a table of UDP sockets;                     *)
(*   WaitSpec  RetroArchNCI.wait_for_ready against a clock;                *)
(*   ApiSpec   cmd, send_nci_command, read_core_memory and                 *)
(*             write_core_memory: the command line each hands to _send     *)
(*             and what it makes of the outcome.                           *)
(***************************************************************************)
EXTENDS Integers, Sequences, FiniteSets, TLC

VARIABLES
    cfg,        \* client -> (host, port, timeout), set by __init__
    pc,         \* caller -> position inside _send
    call,       \* caller -> arguments of the running _send call
    sock,       \* caller -> the local variable `sock` (0: unbound)
    ret,        \* caller -> value returned / exception raised
    err,        \* caller -> which statement failed in this call (history)
    sent,       \* caller -> datagrams this call transmitted (history)
    nrecv,      \* caller -> number of recvfrom calls of this call (history)
    got,        \* caller -> the datagram recvfrom returned (history)
    sockets,    \* socket id -> socket object state
    nextSock,   \* number of socket objects created so far
    calls,      \* number of _send calls started so far
    wpc,        \* wait_for_ready: position
    wcfg,       \* wait_for_ready: [timeout_sec, poll_interval, timeout]
    now,        \* the clock read by time.time()
    start,      \* wait_for_ready: local `start`
    wret,       \* wait_for_ready: returned value / exception
    whist,      \* wait_for_ready: history of the running call
    apc,        \* API call: position ("idle" / "done")
    ain,        \* API call: the operation and its inputs
    handed,     \* API call: the message handed to _send
    aret        \* API call: the value returned / exception raised

sendVars == <<cfg, pc, call, sock, ret, err, sent, nrecv, got, sockets, nextSock, calls>>
waitVars == <<wpc, wcfg, now, start, wret, whist>>
apiVars  == <<apc, ain, handed, aret>>
vars     == <<sendVars, waitVars, apiVars>>

----------------------------------------------------------------------------
(* Python values *)

NoneV     == [tag |-> "None",  text |-> <<>>, num |-> 0]
TextV(t)  == [tag |-> "str",   text |-> t,    num |-> 0]
IntV(n)   == [tag |-> "int",   text |-> <<>>, num |-> n]
BoolV(b)  == [tag |-> "bool",  text |-> <<>>, num |-> IF b THEN 1 ELSE 0]
RaisedV   == [tag |-> "raise", text |-> <<>>, num |-> 0]

Min(a, b) == IF a < b THEN a ELSE b

----------------------------------------------------------------------------
(* Text and bytes *)

\* str.isspace() for the code points a decoded ASCII datagram can hold
IsSpace(ch) == ch \in {9, 10, 11, 12, 13, 28, 29, 30, 31, 32}

\* str.encode("ascii") succeeds iff every code point is below 128
IsAscii(t) == \A i \in 1..Len(t) : t[i] < 128

\* the bytes of an ASCII-encodable text
Encode(t) == t

\* bytes.decode("ascii", errors="replace"): U+FFFD for every byte >= 128
Decode(b) == [i \in 1..Len(b) |-> IF b[i] < 128 THEN b[i] ELSE 65533]

RECURSIVE LStrip(_)
LStrip(t) == IF t # <<>> /\ IsSpace(Head(t)) THEN LStrip(Tail(t)) ELSE t

RECURSIVE RStrip(_)
RStrip(t) ==
    IF t # <<>> /\ IsSpace(t[Len(t)]) THEN RStrip(SubSeq(t, 1, Len(t) - 1)) ELSE t

\* str.strip()
Strip(t) == RStrip(LStrip(t))

\* recvfrom(4096): at most 4096 bytes of the datagram
RecvBufSize == 4096
Truncate(d) == SubSeq(d, 1, Min(Len(d), RecvBufSize))

\* data.decode("ascii", errors="replace").strip()
ResponseText(d) == Strip(Decode(Truncate(d)))

----------------------------------------------------------------------------
(* RetroArchNCI.__init__ and the concurrent callers of _send *)

Callers == {1, 2}
Clients == {1, 2}

MaxCalls == 2      \* _send calls started in one behaviour
MaxInbox == 1      \* datagrams queued on one socket

DefaultPort == 55355
DefaultTimeout == 1

\* endpoint configurations handed to __init__ (stored unchecked)
Configs ==
    { [host |-> "127.0.0.1",    port |-> DefaultPort, timeout |-> DefaultTimeout],
      [host |-> "127.0.0.1",    port |-> DefaultPort, timeout |-> -1],
      [host |-> "no.such.host", port |-> 65536,       timeout |-> DefaultTimeout] }

\* messages handed to _send: "VERSION", and "é" which is not ASCII
VersionMsg == <<86, 69, 82, 83, 73, 79, 78>>
SendMsgs == { VersionMsg, <<233>> }

\* inbound datagrams: b"OK", b" \xc8\n", b"\n"
Datagrams == { <<79, 75>>, <<32, 200, 10>>, <<10>> }

NoCall == [msg |-> <<>>, expect |-> TRUE, client |-> 1]
NoSocket == [state |-> "unused", owner |-> 0, tmo |-> <<>>, bound |-> FALSE, inbox |-> <<>>]

\* socket.settimeout(value) raises ValueError for a negative value
ValidTimeout(t) == t >= 0

\* sendto raises (gaierror, OverflowError) for an endpoint that cannot be used
EndpointUsable(c) == c.host = "127.0.0.1" /\ c.port \in 0..65535

\* every call is handed the first socket object again
SharedSocketId == Min(1, nextSock + 1)

\* socket.socket(...) returns a new socket object
NewSocketId == nextSock + 1

\* recvfrom runs whatever expect_response is
AlwaysReceive(expect_response) == TRUE

\* `if not expect_response: return None` decides whether recvfrom runs
NeedsReceive(expect_response) == expect_response

InFlight == {"settimeout", "sendto", "recvfrom", "finally"}

SendInit ==
    /\ cfg \in [Clients -> Configs]
    /\ pc = [c \in Callers |-> "idle"]
    /\ call = [c \in Callers |-> NoCall]
    /\ sock = [c \in Callers |-> 0]
    /\ ret = [c \in Callers |-> NoneV]
    /\ err = [c \in Callers |-> "none"]
    /\ sent = [c \in Callers |-> <<>>]
    /\ nrecv = [c \in Callers |-> 0]
    /\ got = [c \in Callers |-> <<>>]
    /\ sockets = [s \in 1..MaxCalls |-> NoSocket]
    /\ nextSock = 0
    /\ calls = 0

\* a caller enters _send(msg, expect_response) on a client
Call(c) ==
    /\ pc[c] = "idle"
    /\ calls < MaxCalls
    /\ \E m \in SendMsgs, e \in BOOLEAN, cl \in Clients :
          call' = [call EXCEPT ![c] = [msg |-> m, expect |-> e, client |-> cl]]
    /\ pc' = [pc EXCEPT ![c] = "socket"]
    /\ calls' = calls + 1
    /\ UNCHANGED <<cfg, sock, ret, err, sent, nrecv, got, sockets, nextSock>>

\* sock = socket.socket(AF_INET, SOCK_DGRAM), outside the try
SocketOk(c) ==
    /\ pc[c] = "socket"
    /\ sockets' = [sockets EXCEPT ![NewSocketId] =
                     [state |-> "open", owner |-> c, tmo |-> <<>>,
                      bound |-> FALSE, inbox |-> <<>>]]
    /\ sock' = [sock EXCEPT ![c] = NewSocketId]
    /\ nextSock' = nextSock + 1
    /\ pc' = [pc EXCEPT ![c] = "settimeout"]
    /\ UNCHANGED <<cfg, call, ret, err, sent, nrecv, got, calls>>

\* socket.socket raises OSError (no descriptor left): nothing catches it
SocketFail(c) ==
    /\ pc[c] = "socket"
    /\ pc' = [pc EXCEPT ![c] = "raised"]
    /\ ret' = [ret EXCEPT ![c] = RaisedV]
    /\ err' = [err EXCEPT ![c] = "socket"]
    /\ UNCHANGED <<cfg, call, sock, sent, nrecv, got, sockets, nextSock, calls>>

\* sock.settimeout(self.timeout), outside the try
SetTimeout(c) ==
    /\ pc[c] = "settimeout"
    /\ LET t == cfg[call[c].client].timeout IN
       IF ValidTimeout(t)
       THEN /\ sockets' = [sockets EXCEPT ![sock[c]].tmo = <<t>>]
            /\ pc' = [pc EXCEPT ![c] = "sendto"]
            /\ UNCHANGED <<ret, err>>
       ELSE /\ pc' = [pc EXCEPT ![c] = "raised"]
            /\ ret' = [ret EXCEPT ![c] = RaisedV]
            /\ err' = [err EXCEPT ![c] = "settimeout"]
            /\ UNCHANGED sockets
    /\ UNCHANGED <<cfg, call, sock, sent, nrecv, got, nextSock, calls>>

\* msg.encode("ascii") raises UnicodeEncodeError: except Exception -> None
SendToEncodeError(c) ==
    /\ pc[c] = "sendto"
    /\ ~IsAscii(call[c].msg)
    /\ pc' = [pc EXCEPT ![c] = "finally"]
    /\ ret' = [ret EXCEPT ![c] = NoneV]
    /\ err' = [err EXCEPT ![c] = "encode"]
    /\ UNCHANGED <<cfg, call, sock, sent, nrecv, got, sockets, nextSock, calls>>

\* sock.sendto(...) transmits one datagram; then the expect_response test
SendToOk(c) ==
    /\ pc[c] = "sendto"
    /\ IsAscii(call[c].msg)
    /\ EndpointUsable(cfg[call[c].client])
    /\ sent' = [sent EXCEPT ![c] = Append(@,
                  [data |-> Encode(call[c].msg),
                   host |-> cfg[call[c].client].host,
                   port |-> cfg[call[c].client].port,
                   src  |-> sock[c]])]
    /\ sockets' = [sockets EXCEPT ![sock[c]].bound = TRUE]
    /\ IF NeedsReceive(call[c].expect)
       THEN /\ pc' = [pc EXCEPT ![c] = "recvfrom"]
            /\ ret' = ret
       ELSE /\ pc' = [pc EXCEPT ![c] = "finally"]
            /\ ret' = [ret EXCEPT ![c] = NoneV]
    /\ UNCHANGED <<cfg, call, sock, err, nrecv, got, nextSock, calls>>

\* sock.sendto(...) raises: except Exception -> None
SendToFail(c) ==
    /\ pc[c] = "sendto"
    /\ IsAscii(call[c].msg)
    /\ pc' = [pc EXCEPT ![c] = "finally"]
    /\ ret' = [ret EXCEPT ![c] = NoneV]
    /\ err' = [err EXCEPT ![c] = "sendto"]
    /\ UNCHANGED <<cfg, call, sock, sent, nrecv, got, sockets, nextSock, calls>>

\* data, _ = sock.recvfrom(4096); return data.decode(...).strip()
RecvOk(c) ==
    /\ pc[c] = "recvfrom"
    /\ sockets[sock[c]].inbox # <<>>
    /\ LET d == Head(sockets[sock[c]].inbox) IN
          /\ got' = [got EXCEPT ![c] = <<d>>]
          /\ ret' = [ret EXCEPT ![c] = TextV(ResponseText(d.data))]
    /\ sockets' = [sockets EXCEPT ![sock[c]].inbox = Tail(@)]
    /\ nrecv' = [nrecv EXCEPT ![c] = @ + 1]
    /\ pc' = [pc EXCEPT ![c] = "finally"]
    /\ UNCHANGED <<cfg, call, sock, err, sent, nextSock, calls>>

\* recvfrom raises socket.timeout (nothing arrived in time): return None
RecvTimeout(c) ==
    /\ pc[c] = "recvfrom"
    /\ sockets[sock[c]].inbox = <<>>
    /\ nrecv' = [nrecv EXCEPT ![c] = @ + 1]
    /\ ret' = [ret EXCEPT ![c] = NoneV]
    /\ err' = [err EXCEPT ![c] = "timeout"]
    /\ pc' = [pc EXCEPT ![c] = "finally"]
    /\ UNCHANGED <<cfg, call, sock, sent, got, sockets, nextSock, calls>>

\* recvfrom raises another OSError: except Exception -> None
RecvError(c) ==
    /\ pc[c] = "recvfrom"
    /\ nrecv' = [nrecv EXCEPT ![c] = @ + 1]
    /\ ret' = [ret EXCEPT ![c] = NoneV]
    /\ err' = [err EXCEPT ![c] = "recvfrom"]
    /\ pc' = [pc EXCEPT ![c] = "finally"]
    /\ UNCHANGED <<cfg, call, sock, sent, got, sockets, nextSock, calls>>

\* finally: sock.close() (the queue of a closed socket is discarded); the
\* pending value is returned
Finally(c) ==
    /\ pc[c] = "finally"
    /\ sockets' = [sockets EXCEPT ![sock[c]].state = "closed",
                                  ![sock[c]].inbox = <<>>]
    /\ pc' = [pc EXCEPT ![c] = "returned"]
    /\ UNCHANGED <<cfg, call, sock, ret, err, sent, nrecv, got, nextSock, calls>>

\* the caller has the outcome; its frame of _send is gone
Done(c) ==
    /\ pc[c] \in {"returned", "raised"}
    /\ pc' = [pc EXCEPT ![c] = "idle"]
    /\ call' = [call EXCEPT ![c] = NoCall]
    /\ sock' = [sock EXCEPT ![c] = 0]
    /\ ret' = [ret EXCEPT ![c] = NoneV]
    /\ err' = [err EXCEPT ![c] = "none"]
    /\ sent' = [sent EXCEPT ![c] = <<>>]
    /\ nrecv' = [nrecv EXCEPT ![c] = 0]
    /\ got' = [got EXCEPT ![c] = <<>>]
    /\ UNCHANGED <<cfg, sockets, nextSock, calls>>

\* the network delivers a datagram to an open socket that has a local port
Deliver(s) ==
    /\ sockets[s].state = "open"
    /\ sockets[s].bound
    /\ Len(sockets[s].inbox) < MaxInbox
    /\ \E d \in Datagrams :
          sockets' = [sockets EXCEPT ![s].inbox = Append(@, [data |-> d, dst |-> s])]
    /\ UNCHANGED <<cfg, pc, call, sock, ret, err, sent, nrecv, got, nextSock, calls>>

NoHist == [polled |-> FALSE, failed |-> FALSE, responded |-> FALSE,
           late |-> FALSE, pollAt |-> 0, msg |-> <<>>]
NoWait == [timeout_sec |-> 0, poll_interval |-> 0, timeout |-> 0]

\* no wait_for_ready call is running
WaitIdle ==
    /\ wpc = "idle"
    /\ wcfg = NoWait
    /\ now = 0
    /\ start = 0
    /\ wret = NoneV
    /\ whist = NoHist

\* no API call is running
ApiIdle ==
    /\ apc = "idle"
    /\ ain = [op |-> "none"]
    /\ handed = <<>>
    /\ aret = NoneV

Init == SendInit /\ WaitIdle /\ ApiIdle

Next ==
    \/ \E c \in Callers : Call(c) /\ UNCHANGED <<waitVars, apiVars>>
    \/ \E c \in Callers : SocketOk(c) /\ UNCHANGED <<waitVars, apiVars>>
    \/ \E c \in Callers : SocketFail(c) /\ UNCHANGED <<waitVars, apiVars>>
    \/ \E c \in Callers : SetTimeout(c) /\ UNCHANGED <<waitVars, apiVars>>
    \/ \E c \in Callers : SendToEncodeError(c) /\ UNCHANGED <<waitVars, apiVars>>
    \/ \E c \in Callers : SendToOk(c) /\ UNCHANGED <<waitVars, apiVars>>
    \/ \E c \in Callers : SendToFail(c) /\ UNCHANGED <<waitVars, apiVars>>
    \/ \E c \in Callers : RecvOk(c) /\ UNCHANGED <<waitVars, apiVars>>
    \/ \E c \in Callers : RecvTimeout(c) /\ UNCHANGED <<waitVars, apiVars>>
    \/ \E c \in Callers : RecvError(c) /\ UNCHANGED <<waitVars, apiVars>>
    \/ \E c \in Callers : Finally(c) /\ UNCHANGED <<waitVars, apiVars>>
    \/ \E c \in Callers : Done(c) /\ UNCHANGED <<waitVars, apiVars>>
    \/ \E s \in 1..MaxCalls : Deliver(s) /\ UNCHANGED <<waitVars, apiVars>>

Spec == Init /\ [][Next]_vars

----------------------------------------------------------------------------
(* Claims about _send *)

\* C1: no exception surfaces from _send: every call ends by returning the
\* decoded response text or None, and a failure of any statement of the call
\* (socket creation, settimeout, encoding, sendto, recvfrom) or a timeout
\* makes it return None.
SendNeverRaises ==
    \A c \in Callers :
        /\ pc[c] # "raised"
        /\ pc[c] = "returned" => ret[c].tag \in {"None", "str"}
        /\ pc[c] = "returned" /\ err[c] # "none" => ret[c] = NoneV

\* C2: when a _send call has ended (by return or by exception) the socket it
\* opened is closed: every open socket is the `sock` of a call still running.
SocketsReleased ==
    \A s \in 1..MaxCalls :
        sockets[s].state = "open" =>
            /\ pc[sockets[s].owner] \in InFlight
            /\ sock[sockets[s].owner] = s

\* C5: a call transmits at most one datagram, its encoded message, to
\* (host, port).  With expect_response false it never calls recvfrom and
\* returns None, having transmitted exactly one datagram when no statement
\* failed, whether or not a reply is queued on its socket.  With
\* expect_response true it calls recvfrom at most once, only after the
\* transmit, and a returned text is the decoded, stripped text of the one
\* datagram that recvfrom returned.
FireAndForget ==
    \A c \in Callers :
        /\ Len(sent[c]) <= 1
        /\ \A i \in 1..Len(sent[c]) :
              /\ sent[c][i].data = Encode(call[c].msg)
              /\ sent[c][i].host = cfg[call[c].client].host
              /\ sent[c][i].port = cfg[call[c].client].port
        /\ ~call[c].expect =>
              /\ nrecv[c] = 0
              /\ got[c] = <<>>
              /\ pc[c] # "recvfrom"
              /\ pc[c] = "returned" => ret[c] = NoneV
              /\ pc[c] = "returned" /\ err[c] = "none" => Len(sent[c]) = 1
        /\ call[c].expect =>
              /\ nrecv[c] <= 1
              /\ nrecv[c] = 1 => Len(sent[c]) = 1
              /\ pc[c] = "returned" /\ err[c] = "none" => ret[c].tag = "str"
        /\ ret[c].tag = "str" =>
              /\ nrecv[c] = 1
              /\ Len(got[c]) = 1
              /\ ret[c].text = ResponseText(got[c][1].data)

\* C5 witness: one call is fire-and-forget, has transmitted and is leaving
\* with a reply queued unread on its socket, while another call has
\* returned the text of the datagram it received.
FireAndForgetWitness ==
    \E c, d \in Callers :
        /\ c # d
        /\ pc[c] = "finally" /\ ~call[c].expect /\ Len(sent[c]) = 1
        /\ sockets[sock[c]].inbox # <<>>
        /\ pc[d] = "returned" /\ ret[d].tag = "str" /\ nrecv[d] = 1

\* what one step of caller c may touch
IndependentStep ==
    /\ cfg' = cfg
    /\ \A c \in Callers :
          pc'[c] # pc[c] =>
              /\ \A d \in Callers \ {c} :
                    /\ pc'[d] = pc[d] /\ ret'[d] = ret[d] /\ err'[d] = err[d]
                    /\ sock'[d] = sock[d] /\ got'[d] = got[d] /\ sent'[d] = sent[d]
                    /\ sock[d] # 0 => sockets'[sock[d]] = sockets[sock[d]]
              /\ \A s \in 1..MaxCalls :
                    sockets'[s].state # sockets[s].state => s \in {sock[c], sock'[c]}
    /\ \A c, d \in Callers :
          c # d /\ sock'[c] # 0 => sock'[c] # sock'[d]
    /\ \A c \in Callers :
          got'[c] # <<>> =>
              /\ got'[c][1].dst = sock'[c]
              /\ sockets'[sock'[c]].owner = c
              /\ ret'[c] = TextV(ResponseText(got'[c][1].data))

\* C6: concurrent _send calls, on one client or on several, are independent:
\* the configuration is never written, a step of one call changes neither
\* the position, result, socket variable or socket object of another call,
\* a socket is opened and closed only by the call that owns it, no two
\* running calls hold the same socket, and the datagram a call returns was
\* delivered to that call's own socket.
CallsIndependent == [][IndependentStep]_vars

\* C6 witness: two calls on the same client run at once; one has timed out,
\* the other has received a datagram, and both still hold an open socket.
CallsIndependentWitness ==
    \E c, d \in Callers :
        /\ c # d /\ call[c].client = call[d].client
        /\ pc[c] = "finally" /\ err[c] = "timeout"
        /\ pc[d] = "finally" /\ ret[d].tag = "str"
        /\ sockets[sock[c]].state = "open" /\ sockets[sock[d]].state = "open"

----------------------------------------------------------------------------
(* Building command lines: str(), " ".join(), format specs X and 02X *)

RECURSIVE DecDigits(_)
DecDigits(n) ==
    IF n < 10 THEN <<48 + n>> ELSE DecDigits(n \div 10) \o <<48 + (n % 10)>>

\* str(n) for an int
Dec(n) == IF n < 0 THEN <<45>> \o DecDigits(-n) ELSE DecDigits(n)

\* str(arg): a str is itself, an int its decimal form
Str(arg) == IF arg.tag = "int" THEN Dec(arg.num) ELSE arg.text

HexDigit(d) == IF d < 10 THEN 48 + d ELSE 55 + d

RECURSIVE HexDigits(_)
HexDigits(n) ==
    IF n < 16 THEN <<HexDigit(n)>> ELSE HexDigits(n \div 16) \o <<HexDigit(n % 16)>>

\* f"{n:X}": uppercase hexadecimal, no prefix, '-' for a negative number
FormatX(n) == IF n < 0 THEN <<45>> \o HexDigits(-n) ELSE HexDigits(n)

\* f"{b:02X}": the same, zero-filled after the sign to a width of 2
Format02X(b) == IF 0 <= b /\ b < 16 THEN <<48>> \o HexDigits(b) ELSE FormatX(b)

\* sep.join(parts)
RECURSIVE Join(_, _)
Join(sep, parts) ==
    IF parts = <<>> THEN <<>>
    ELSE IF Len(parts) = 1 THEN parts[1]
    ELSE parts[1] \o sep \o Join(sep, Tail(parts))

MapStr(args) == [i \in 1..Len(args) |-> Str(args[i])]

\* cmd(): f"{cmd_name} " + " ".join(map(str, args)) if args else cmd_name
CmdMessage(name, args) ==
    IF args # <<>> THEN (name \o <<32>>) \o Join(<<32>>, MapStr(args)) ELSE name

\* send_nci_command() with a raw name: msg = str(name); msg += " " + " ".join(...)
RawMessage(name, args) ==
    IF args # <<>> THEN Str(name) \o (<<32>> \o Join(<<32>>, MapStr(args))) ELSE Str(name)

----------------------------------------------------------------------------
(* _send as its callers see it: the value it yields and the time it takes *)

\* Every outcome a _send(msg, expect_response) call on a client configured
\* as c can have when the datagrams dgrams may arrive.  socket.socket() may always fail and settimeout fails for
\* a negative timeout: both raise at once.  Inside the try every failure and
\* the timeout give None within c.timeout; a datagram gives its text.
SendOutcomes(msg, expect_response, c, dgrams) ==
    { [val |-> RaisedV, dur |-> 0] }
    \cup
    ( IF ValidTimeout(c.timeout)
      THEN { [val |-> NoneV, dur |-> t] : t \in 0..c.timeout }
      ELSE {} )
    \cup
    ( IF ValidTimeout(c.timeout) /\ IsAscii(msg) /\ EndpointUsable(c)
         /\ NeedsReceive(expect_response)
      THEN { [val |-> TextV(ResponseText(d)), dur |-> t] :
                d \in dgrams, t \in 0..c.timeout }
      ELSE {} )

----------------------------------------------------------------------------
(* wait_for_ready *)

MaxBudget == 3        \* largest timeout_sec, in clock ticks
MaxPoll == 2          \* largest poll_interval
MaxTimeout == 2       \* largest per-call timeout of the client
MaxStart == 1         \* latest clock value at which a call starts

WaitClient(w) == [host |-> "127.0.0.1", port |-> DefaultPort, timeout |-> w.timeout]

\* a loop that never tests the deadline
NoDeadline(elapsed, timeout_sec) == TRUE

\* while time.time() - start < timeout_sec
WithinBudget(elapsed, timeout_sec) == elapsed < timeout_sec

\* any outcome of the poll counts as a response
AnyIsReady(resp) == TRUE

\* if resp is not None
IsReady(resp) == resp # NoneV

WaitInit == WaitIdle

\* time passes between calls
Tick ==
    /\ wpc = "idle"
    /\ now < MaxStart
    /\ now' = now + 1
    /\ UNCHANGED <<wpc, wcfg, start, wret, whist>>

\* wait_for_ready(timeout_sec, poll_interval) is entered: start = time.time()
WaitCall ==
    /\ wpc = "idle"
    /\ now <= MaxStart
    /\ \E ts \in 0..MaxBudget, pi \in 0..MaxPoll, t \in 0..MaxTimeout :
          wcfg' = [timeout_sec |-> ts, poll_interval |-> pi, timeout |-> t]
    /\ start' = now
    /\ wpc' = "test"
    /\ wret' = NoneV
    /\ whist' = NoHist
    /\ now' = now

\* the loop test; when it fails: return False
WaitTest ==
    /\ wpc = "test"
    /\ IF WithinBudget(now - start, wcfg.timeout_sec)
       THEN /\ wpc' = "poll"
            /\ wret' = wret
       ELSE /\ wpc' = "done"
            /\ wret' = BoolV(FALSE)
    /\ UNCHANGED <<wcfg, now, start, whist>>

\* resp = self.send_nci_command(NCICommand.VERSION); if resp is not None: return True
WaitPoll ==
    /\ wpc = "poll"
    /\ \E o \in SendOutcomes(CmdMessage(VersionMsg, <<>>), TRUE, WaitClient(wcfg), Datagrams) :
          /\ now' = now + o.dur
          /\ whist' = [whist EXCEPT !.polled = TRUE,
                                    !.pollAt = now - start,
                                    !.msg = CmdMessage(VersionMsg, <<>>),
                                    !.late = whist.responded,
                                    !.failed = @ \/ o.val = NoneV,
                                    !.responded = @ \/ o.val.tag = "str"]
          /\ IF o.val = RaisedV
             THEN wpc' = "raised" /\ wret' = RaisedV
             ELSE IF IsReady(o.val)
             THEN wpc' = "done" /\ wret' = BoolV(TRUE)
             ELSE wpc' = "sleep" /\ wret' = wret
    /\ UNCHANGED <<wcfg, start>>

\* time.sleep(poll_interval)
WaitSleep ==
    /\ wpc = "sleep"
    /\ now' = now + wcfg.poll_interval
    /\ whist' = [whist EXCEPT !.late = whist.responded]
    /\ wpc' = "test"
    /\ UNCHANGED <<wcfg, start, wret>>

\* the caller has the outcome
WaitDone ==
    /\ wpc \in {"done", "raised"}
    /\ wpc' = "idle"
    /\ wcfg' = NoWait
    /\ start' = 0
    /\ wret' = NoneV
    /\ whist' = NoHist
    /\ now' = now

SendIdle ==
    /\ cfg = [c \in Clients |-> [host |-> "127.0.0.1", port |-> DefaultPort,
                                 timeout |-> DefaultTimeout]]
    /\ pc = [c \in Callers |-> "idle"]
    /\ call = [c \in Callers |-> NoCall]
    /\ sock = [c \in Callers |-> 0]
    /\ ret = [c \in Callers |-> NoneV]
    /\ err = [c \in Callers |-> "none"]
    /\ sent = [c \in Callers |-> <<>>]
    /\ nrecv = [c \in Callers |-> 0]
    /\ got = [c \in Callers |-> <<>>]
    /\ sockets = [s \in 1..MaxCalls |-> NoSocket]
    /\ nextSock = 0
    /\ calls = 0

WaitSpecInit == SendIdle /\ WaitInit /\ ApiIdle

WaitNext ==
    \/ Tick /\ UNCHANGED <<sendVars, apiVars>>
    \/ WaitCall /\ UNCHANGED <<sendVars, apiVars>>
    \/ WaitTest /\ UNCHANGED <<sendVars, apiVars>>
    \/ WaitPoll /\ UNCHANGED <<sendVars, apiVars>>
    \/ WaitSleep /\ UNCHANGED <<sendVars, apiVars>>
    \/ WaitDone /\ UNCHANGED <<sendVars, apiVars>>

WaitSpec == WaitSpecInit /\ [][WaitNext]_vars

\* C3: wait_for_ready polls with the message VERSION, each poll started
\* within the budget.  A non-absent response ends the call at once with
\* True: no poll and no sleep follows it.  True is returned only when a poll
\* received a response, and a call whose polls all yielded None (or that
\* made no poll) returns False.
ReadyIffResponse ==
    /\ whist.polled => /\ whist.msg = VersionMsg
                       /\ whist.pollAt < wcfg.timeout_sec
    /\ whist.responded => wpc = "done" /\ wret = BoolV(TRUE) /\ ~whist.late
    /\ wret = BoolV(TRUE) => whist.responded /\ wpc = "done"
    /\ wpc = "done" /\ ~whist.responded => wret = BoolV(FALSE)
    /\ wpc = "done" => wret \in {BoolV(TRUE), BoolV(FALSE)}

\* C3 witness: the call returned True after an earlier poll had failed.
ReadyIffResponseWitness ==
    wpc = "done" /\ wret = BoolV(TRUE) /\ whist.failed /\ whist.responded

----------------------------------------------------------------------------
(* Parsing the READ_CORE_MEMORY response: str.split, int(b, 16), |=, << *)

RECURSIVE TokenEnd(_, _)
\* the index after the run of non-whitespace that starts at t[i]
TokenEnd(t, i) == IF i > Len(t) \/ IsSpace(t[i]) THEN i ELSE TokenEnd(t, i + 1)

RECURSIVE Split(_)
\* str.split(): the maximal runs of non-whitespace
Split(t) ==
    LET s == LStrip(t) IN
    IF s = <<>> THEN <<>>
    ELSE LET n == TokenEnd(s, 1) IN
         <<SubSeq(s, 1, n - 1)>> \o Split(SubSeq(s, n, Len(s)))

\* the value of a hexadecimal digit, -1 for any other code point
HexVal(ch) ==
    IF 48 <= ch /\ ch <= 57 THEN ch - 48
    ELSE IF 65 <= ch /\ ch <= 70 THEN ch - 55
    ELSE IF 97 <= ch /\ ch <= 102 THEN ch - 87
    ELSE -1

\* digits of an int literal: single underscores only between digits
DigitsOk(b) ==
    /\ b # <<>>
    /\ HexVal(b[1]) >= 0
    /\ HexVal(b[Len(b)]) >= 0
    /\ \A i \in 1..Len(b) : HexVal(b[i]) >= 0 \/ b[i] = 95
    /\ \A i \in 1..(Len(b) - 1) : ~(b[i] = 95 /\ b[i + 1] = 95)

RECURSIVE DigitsValue(_, _)
DigitsValue(b, acc) ==
    IF b = <<>> THEN acc
    ELSE IF Head(b) = 95 THEN DigitsValue(Tail(b), acc)
    ELSE DigitsValue(Tail(b), 16 * acc + HexVal(Head(b)))

\* int(tok, 16) for a token without whitespace: an optional sign, an optional
\* 0x / 0X prefix (one underscore may follow it), then the digits.
\* ok = FALSE stands for ValueError.
IntBase16(tok) ==
    LET signed == tok # <<>> /\ tok[1] \in {43, 45}
        rest   == IF signed THEN Tail(tok) ELSE tok
        pref   == Len(rest) >= 2 /\ rest[1] = 48 /\ rest[2] \in {88, 120}
        after  == IF pref THEN SubSeq(rest, 3, Len(rest)) ELSE rest
        body   == IF pref /\ after # <<>> /\ after[1] = 95 THEN Tail(after) ELSE after
    IN  IF ~DigitsOk(body) THEN [ok |-> FALSE, val |-> 0]
        ELSE [ok |-> TRUE,
              val |-> IF tok[1] = 45 THEN 0 - DigitsValue(body, 0)
                      ELSE DigitsValue(body, 0)]

RECURSIVE BitOr(_, _)
\* a | b on Python ints (two's complement of unbounded width)
BitOr(a, b) ==
    IF a = 0 THEN b
    ELSE IF b = 0 THEN a
    ELSE IF a = -1 \/ b = -1 THEN -1
    ELSE (IF a % 2 = 1 \/ b % 2 = 1 THEN 1 ELSE 0) + 2 * BitOr(a \div 2, b \div 2)

\* a << k
ShiftLeft(a, k) == a * (2 ^ k)

\* four bits per token instead of eight
NibbleShift(i) == 4 * i

\* the shift of byte token i (from 0): 8 * i
ShiftBits(i) == 8 * i

\* the bytes assembled so far are returned when a token fails to parse
PartialValue(val) == IntV(val)

\* except ValueError: return None
OnValueError(val) == NoneV

RECURSIVE Assemble(_, _, _)
\* for i, b in enumerate(byte_parts): val |= int(b, 16) << (8 * i); return val
Assemble(byte_parts, i, val) ==
    IF i >= Len(byte_parts) THEN IntV(val)
    ELSE LET r == IntBase16(byte_parts[i + 1]) IN
         IF ~r.ok THEN OnValueError(val)
         ELSE Assemble(byte_parts, i + 1, BitOr(val, ShiftLeft(r.val, ShiftBits(i))))

ReadCoreMemoryName == <<82, 69, 65, 68, 95, 67, 79, 82, 69, 95, 77, 69, 77, 79, 82, 89>>
WriteCoreMemoryName ==
    <<87, 82, 73, 84, 69, 95, 67, 79, 82, 69, 95, 77, 69, 77, 79, 82, 89>>

\* "-1", the failure marker
FailureMarker == <<45, 49>>

\* read_core_memory after _send: what it returns for the value resp
ReadResult(resp) ==
    IF resp = RaisedV THEN RaisedV
    ELSE IF resp = NoneV THEN NoneV
    ELSE LET parts == Split(resp.text) IN
         IF Len(parts) < 3 THEN NoneV
         ELSE LET byte_parts == SubSeq(parts, 3, Len(parts)) IN
              IF Len(byte_parts) = 1 /\ byte_parts[1] = FailureMarker THEN NoneV
              ELSE Assemble(byte_parts, 0, 0)

\* f"READ_CORE_MEMORY {address:X} {size}"
ReadMessage(address, size) ==
    ReadCoreMemoryName \o <<32>> \o FormatX(address) \o <<32>> \o Str(size)

\* hex_bytes = " ".join(f"{b:02X}" ...); f"WRITE_CORE_MEMORY {address:X} {hex_bytes}"
WriteMessage(address, bytes_list) ==
    WriteCoreMemoryName \o <<32>> \o FormatX(address) \o <<32>>
        \o Join(<<32>>, [i \in 1..Len(bytes_list) |-> Format02X(bytes_list[i])])

----------------------------------------------------------------------------
(* cmd, send_nci_command, read_core_memory, write_core_memory *)

MaxArgs == 2       \* positional arguments of cmd / send_nci_command
MaxBytes == 2      \* byte tokens of a READ_CORE_MEMORY response
MaxWrite == 2      \* length of bytes_list

ShowMesgName == <<83, 72, 79, 87, 95, 77, 69, 83, 71>>
QuitName == <<81, 85, 73, 84>>

\* NCICommand members, each by its name
Opcodes == { VersionMsg, ShowMesgName, QuitName }

\* raw command names: "FOO", "", 7
RawNames == { TextV(<<70, 79, 79>>), TextV(<<>>), IntV(7) }

\* arguments: "Hi", 2000, "", "a b", "a\nb"
ArgValues == { TextV(<<72, 105>>), IntV(2000), TextV(<<>>),
               TextV(<<97, 32, 98>>), TextV(<<97, 10, 98>>) }

BoundedSeqs(S, n) == UNION { [1..k -> S] : k \in 0..n }

\* byte tokens of a response, as bytes: 00 01 02 FF 7f -1 -2 0x10 1_0 G1
\* 1FF +3 _1 and the non-ASCII byte C8
ByteTokens ==
    { <<48, 48>>, <<48, 49>>, <<48, 50>>, <<70, 70>>, <<55, 102>>,
      <<45, 49>>, <<45, 50>>, <<48, 120, 49, 48>>, <<49, 95, 48>>, <<71, 49>>,
      <<49, 70, 70>>, <<43, 51>>, <<95, 49>>, <<200>> }

\* (address, size) pairs read, and the addresses and byte values written
ReadInputs == { <<256, 1>>, <<16, 3>> }
WriteAddresses == { 0, 16 }
WriteBytes == { 0, 1, 255 }

\* the client the API calls run on
ApiClient == [host |-> "127.0.0.1", port |-> DefaultPort, timeout |-> DefaultTimeout]

SendValues(msg, expect_response, dgrams) ==
    { o.val : o \in SendOutcomes(msg, expect_response, ApiClient, dgrams) }

ApiInit == SendIdle /\ WaitIdle /\ ApiIdle

\* cmd(command, *args, expect_response)
Cmd ==
    /\ apc = "idle"
    /\ \E name \in Opcodes, args \in BoundedSeqs(ArgValues, MaxArgs), e \in BOOLEAN :
          /\ handed' = CmdMessage(name, args)
          /\ \E v \in SendValues(CmdMessage(name, args), e, Datagrams) :
                /\ aret' = v
                /\ ain' = [op |-> "cmd", name |-> name, args |-> args, resp |-> v]
    /\ apc' = "done"

\* send_nci_command(cmd_or_str, ...) with an NCICommand: delegates to cmd
SendNciCommandOpcode ==
    /\ apc = "idle"
    /\ \E name \in Opcodes, args \in BoundedSeqs(ArgValues, MaxArgs), e \in BOOLEAN :
          /\ handed' = CmdMessage(name, args)
          /\ \E v \in SendValues(CmdMessage(name, args), e, Datagrams) :
                /\ aret' = v
                /\ ain' = [op |-> "send_nci_command", name |-> name, args |-> args,
                           resp |-> v]
    /\ apc' = "done"

\* send_nci_command(cmd_or_str, ...) with anything else: the raw name
SendNciCommandRaw ==
    /\ apc = "idle"
    /\ \E raw \in RawNames, args \in BoundedSeqs(ArgValues, MaxArgs), e \in BOOLEAN :
          /\ handed' = RawMessage(raw, args)
          /\ \E v \in SendValues(RawMessage(raw, args), e, Datagrams) :
                /\ aret' = v
                /\ ain' = [op |-> "send_nci_command", name |-> Str(raw), args |-> args,
                           resp |-> v]
    /\ apc' = "done"

\* read_core_memory(address, size); the datagram that may answer it is the
\* tokens `tokens` joined by sep and ended by suffix
ReadCoreMemory ==
    /\ apc = "idle"
    /\ \E in \in ReadInputs,
          head \in { <<>>, <<ReadCoreMemoryName>>, <<ReadCoreMemoryName, FormatX(256)>> },
          toks \in BoundedSeqs(ByteTokens, MaxBytes),
          sep \in { <<32>>, <<9, 32>> },
          suffix \in { <<>>, <<10>> } :
          /\ handed' = ReadMessage(in[1], IntV(in[2]))
          /\ \E v \in SendValues(ReadMessage(in[1], IntV(in[2])), TRUE,
                                 { Join(sep, head \o toks) \o suffix }) :
                /\ aret' = ReadResult(v)
                /\ ain' = [op |-> "read_core_memory", address |-> in[1], size |-> in[2],
                           tokens |-> head \o toks, resp |-> v]
    /\ apc' = "done"

\* write_core_memory(address, bytes_list)
WriteCoreMemory ==
    /\ apc = "idle"
    /\ \E a \in WriteAddresses, bl \in BoundedSeqs(WriteBytes, MaxWrite) :
          /\ handed' = WriteMessage(a, bl)
          /\ \E v \in SendValues(WriteMessage(a, bl), TRUE, Datagrams) :
                /\ aret' = v
                /\ ain' = [op |-> "write_core_memory", address |-> a, bytes_list |-> bl,
                           resp |-> v]
    /\ apc' = "done"

\* the caller has the outcome
ApiDone ==
    /\ apc = "done"
    /\ apc' = "idle"
    /\ ain' = [op |-> "none"]
    /\ handed' = <<>>
    /\ aret' = NoneV

ApiNext ==
    \/ Cmd /\ UNCHANGED <<sendVars, waitVars>>
    \/ SendNciCommandOpcode /\ UNCHANGED <<sendVars, waitVars>>
    \/ SendNciCommandRaw /\ UNCHANGED <<sendVars, waitVars>>
    \/ ReadCoreMemory /\ UNCHANGED <<sendVars, waitVars>>
    \/ WriteCoreMemory /\ UNCHANGED <<sendVars, waitVars>>
    \/ ApiDone /\ UNCHANGED <<sendVars, waitVars>>

ApiSpec == ApiInit /\ [][ApiNext]_vars

----------------------------------------------------------------------------
(* Claims about read_core_memory and the command lines *)

ReadDone == apc = "done" /\ ain.op = "read_core_memory"

\* the byte tokens of the response that was sent: all tokens after the second
SentByteTokens == SubSeq(ain.tokens, 3, Len(ain.tokens))

HexAlphabet == <<48, 49, 50, 51, 52, 53, 54, 55, 56, 57, 65, 66, 67, 68, 69, 70>>
Upper(ch) == IF 97 <= ch /\ ch <= 122 THEN ch - 32 ELSE ch
IsHexChar(ch) == \E i \in 1..16 : HexAlphabet[i] = Upper(ch)
NibbleOf(ch) == (CHOOSE i \in 1..16 : HexAlphabet[i] = Upper(ch)) - 1
IsHexByte(tok) == Len(tok) = 2 /\ IsHexChar(tok[1]) /\ IsHexChar(tok[2])
ByteOf(tok) == 16 * NibbleOf(tok[1]) + NibbleOf(tok[2])

RECURSIVE LittleEndianSum(_)
\* the sum over i of b_i * 256^i
LittleEndianSum(toks) ==
    IF toks = <<>> THEN 0 ELSE ByteOf(Head(toks)) + 256 * LittleEndianSum(Tail(toks))

\* C7: when the response is READ_CORE_MEMORY <address> b_0 ... b_(k-1) with
\* k >= 1 tokens that are each two hexadecimal digits, read_core_memory
\* returns the integer sum of b_i * 256^i.
LittleEndianAssembly ==
    ( /\ ReadDone
      /\ ain.resp.tag = "str"
      /\ Len(ain.tokens) >= 3
      /\ ain.tokens[1] = ReadCoreMemoryName
      /\ \A i \in 1..Len(SentByteTokens) : IsHexByte(SentByteTokens[i]) )
    => aret = IntV(LittleEndianSum(SentByteTokens))

\* C7 witness: the response READ_CORE_MEMORY 100 01 02 was decoded to 0x0201.
LittleEndianAssemblyWitness ==
    /\ ReadDone
    /\ ain.resp.tag = "str"
    /\ ain.tokens = <<ReadCoreMemoryName, <<49, 48, 48>>, <<48, 49>>, <<48, 50>>>>
    /\ aret = IntV(513)

\* C8: read_core_memory returns None, and does not raise, when _send
\* returned None, when the response has fewer than 3 whitespace tokens, and
\* when some byte token is rejected by the hexadecimal parse (then no
\* partial integer is returned).
MalformedIsNoValue ==
    ReadDone =>
        /\ ain.resp = NoneV => aret = NoneV
        /\ ain.resp.tag = "str" /\ Len(ain.tokens) < 3 => aret = NoneV
        /\ ( /\ ain.resp.tag = "str"
             /\ \E i \in 1..Len(SentByteTokens) :
                   ~IntBase16(Decode(SentByteTokens[i])).ok )
           => aret = NoneV
        /\ ain.resp # RaisedV => aret # RaisedV

\* C8 witness: the response READ_CORE_MEMORY 100 01 G1, whose second byte
\* token fails to parse after the first one parsed, gave None.
MalformedIsNoValueWitness ==
    /\ ReadDone
    /\ ain.resp.tag = "str"
    /\ ain.tokens = <<ReadCoreMemoryName, <<49, 48, 48>>, <<48, 49>>, <<71, 49>>>>
    /\ aret = NoneV

\* C9: for every response text read_core_memory returns None or a
\* non-negative integer, and None when the last byte token is "-1".
NeverNegative ==
    ReadDone /\ ain.resp.tag = "str" =>
        /\ aret = NoneV \/ (aret.tag = "int" /\ aret.num >= 0)
        /\ ( Len(ain.tokens) >= 3 /\ ain.tokens[Len(ain.tokens)] = FailureMarker )
           => aret = NoneV

\* a command line: no newline, no leading, trailing or doubled space
SingleLine(m) ==
    /\ m # <<>>
    /\ \A i \in 1..Len(m) : m[i] # 10
    /\ m[1] # 32
    /\ m[Len(m)] # 32
    /\ \A i \in 1..(Len(m) - 1) : ~(m[i] = 32 /\ m[i + 1] = 32)

\* C10: every message handed to _send by cmd, send_nci_command,
\* read_core_memory or write_core_memory is a single line whose tokens are
\* separated by single spaces, without a trailing space; with no argument
\* it is the command name itself.
CommandLineIsSingleLine ==
    apc = "done" =>
        /\ SingleLine(handed)
        /\ ain.op \in {"cmd", "send_nci_command"} /\ ain.args = <<>>
           => handed = ain.name

====
